---- MODULE Spec2Model ----
(***************************************************************************)
(* Client-side session flow of the ATM kiosk (login -> OTP -> main menu -> *)
(* balance) and the emergency lockdown kept in sessionStorage.             *)
(*                                                                         *)
(* One browser window shows one page at a time.  A page load is: the       *)
(* document's scripts run (RunScripts), then DOMContentLoaded fires.       *)
(* User actions, backend pushes (functions exposed through eel) and timer  *)
(* callbacks are the other steps.                                          *)
(***************************************************************************)
EXTENDS Integers, Sequences, FiniteSets, TLC

VARIABLES
  page,         \* document shown in the window
  url,          \* query parameters of window.location: [user, status, t, bal]
  doc,          \* the document shown, once its scripts have run: has it
                \* #lockscreen, and whose script ran last
  scriptsRun,   \* the page's scripts have been executed
  domReady,     \* the DOMContentLoaded handler of global.js has run
  store,        \* sessionStorage.getItem("lockdown")
  alarm,        \* emergency push since the last reset: "none", delivered "here"
                \* (to this document) or "earlier" (to a document before it)
  overlay,      \* #lockscreen style.display on the current page
  statusText,   \* #status innerText
  countdown,    \* <<n>> when #countdown shows "<n>s remaining", <<>> before
  timeLeft,     \* otp.js timeLeft
  timerPending, \* a setTimeout(tick, 1000) is outstanding
  expiredShown, \* how many times tick wrote the expired message on this page
  ticks,        \* timer callbacks of tick run on this page
  menu,         \* buttons rendered into #menu
  balanceText,  \* #balance-amount innerText
  sent,         \* requests the current document issued through eel, in order
  awaiting,     \* checkBalance calls suspended on eel.get_balance
  left          \* how the countdown stood when the document before this one
                \* was left: "running", "expired", or "none" if it had none

vars == <<page, url, doc, scriptsRun, domReady, store, alarm, overlay, statusText,
          countdown, timeLeft, timerPending, expiredShown, ticks, menu,
          balanceText, sent, awaiting, left>>

\* ------------------------------------------------------------------ bounds
MaxOtpLen == 7     \* most digits typed into #otp
MaxSeed == 3       \* largest countdown seed the backend pushes
MaxReq == 2        \* backend requests recorded before the user stops
MaxBal == 1        \* largest balance the backend returns

\* ------------------------------------------------------- program constants
DefaultSeed == 60
OtpLen == 6

ABSENT == "<absent>"      \* null / undefined: a parameter that is not there

AppPages == {"index", "otp", "mainmenu", "balance"}

Users == {"alice", "bob"}
Statuses == {"customer", "Staff", ""}   \* roles as the backend spells them, or none
OtpStatuses == {"customer"}         \* otp.js reads the role and never uses it
Seeds == 0..MaxSeed

\* what the HTML of a page fixes: whether it holds the #lockscreen element, and
\* whether the page's own script or global.js is the last script of the page
DocKinds == [lock : BOOLEAN, last : {"page", "global"}]
NoDoc == [lock |-> FALSE, last |-> "page"]   \* nothing of the document is there yet
Msgs == {"Invalid credentials", "Wrong OTP"}
Amounts == 0..MaxBal

Rep(c, n) == [i \in 1..n |-> c]

\* a text as typed: as it is, or with a blank before it or after it
Padded(w) == {w, <<" ">> \o w, w \o <<" ">>}

\* texts typed into #user, #pass and #otp
UserInputs == Padded(<<>>) \cup Padded(<<"u">>)
PassInputs == Padded(<<>>) \cup Padded(<<"p">>)
OtpInputs == UNION {Padded(Rep("1", j)) : j \in 0..MaxOtpLen}

MsgValidateLogin == "Enter username & password"
MsgAuthenticating == "Authenticating..."
MsgValidateOtp == "Enter 6 digits"
MsgVerifying == "Verifying..."
MsgExpired == "OTP expired"

NoUrl == [user |-> ABSENT, status |-> ABSENT, t |-> ABSENT, bal |-> ABSENT]

\* ------------------------------------------------------------ pure helpers
\* String.prototype.trim
RECURSIVE TrimLeft(_)
TrimLeft(s) == IF s # <<>> /\ Head(s) = " " THEN TrimLeft(Tail(s)) ELSE s

RECURSIVE TrimRight(_)
TrimRight(s) ==
  IF s # <<>> /\ s[Len(s)] = " " THEN TrimRight(SubSeq(s, 1, Len(s) - 1)) ELSE s

trim(s) == TrimRight(TrimLeft(s))

\* `${x}` in a template literal: null and undefined become words
Str(x) == IF x = ABSENT THEN "null" ELSE x

\* `${n}` of a number
NumStr(n) == <<"0", "1", "2", "3", "4", "5", "6", "7", "8", "9">>[n + 1]

IsNumStr(s) == \E n \in 0..9 : NumStr(n) = s

\* parseInt / parseFloat of a parameter; NaN when it is absent or no number
NaN == -1000
parseInt(s) == IF IsNumStr(s) THEN CHOOSE n \in 0..9 : NumStr(n) = s ELSE NaN

\* String.prototype.toLowerCase on the role words used here
toLowerCase(s) == IF s = "Staff" THEN "staff" ELSE s

\* parseInt(url.searchParams.get("t")) || 60
InitialTimeLeft(t) ==
  IF parseInt(t) = NaN \/ parseInt(t) = 0 THEN DefaultSeed ELSE parseInt(t)

\* variant: the role is compared as it is spelled
MenuStatusExact(s) == IF s = ABSENT \/ s = "" THEN "customer" ELSE s

\* (url.searchParams.get("status") || "customer").toLowerCase()
MenuStatus(s) == toLowerCase(IF s = ABSENT \/ s = "" THEN "customer" ELSE s)

\* buttons written into #menu
MenuFor(status) ==
  IF status = "staff"
    THEN {"Enable Maintenance", "Disable Maintenance", "Logout"}
    ELSE {"Check Balance", "Withdraw", "Deposit", "Logout"}

\* text written into #balance-amount
BalanceDisplay(bal) ==
  IF bal = "Error" THEN <<"Error retrieving balance">>
  ELSE IF parseInt(bal) = NaN THEN <<"RM", "NaN">>
  ELSE <<"RM", NumStr(parseInt(bal)), ".00">>

\* the page is running: its scripts have defined and exposed its functions
Live(p) == page = p /\ scriptsRun

\* ------------------------------------------------------------- navigation
\* window.location.replace / window.location.href = ...: a new document,
\* nothing of the old page's runtime survives; sessionStorage does.
Document(p, u) ==
  /\ page' = p
  /\ url' = u
  /\ doc' = NoDoc
  /\ scriptsRun' = FALSE
  /\ domReady' = FALSE
  /\ overlay' = "none"
  /\ statusText' = ""
  /\ countdown' = <<>>
  /\ timeLeft' = 0
  /\ timerPending' = FALSE
  /\ expiredShown' = 0
  /\ ticks' = 0
  /\ menu' = {}
  /\ balanceText' = <<>>
  /\ sent' = <<>>
  /\ awaiting' = 0
  /\ left' = IF page = "otp" /\ countdown # <<>>
               THEN IF expiredShown >= 1 THEN "expired" ELSE "running"
               ELSE "none"

Navigate(p, u) ==
  /\ Document(p, u)
  /\ alarm' = IF alarm = "none" THEN "none" ELSE "earlier"

\* ------------------------------------------------------------------- Init
Init ==
  /\ page = "index"
  /\ url = NoUrl
  /\ doc = NoDoc
  /\ scriptsRun = FALSE
  /\ domReady = FALSE
  /\ store = ABSENT
  /\ alarm = "none"
  /\ overlay = "none"
  /\ statusText = ""
  /\ countdown = <<>>
  /\ timeLeft = 0
  /\ timerPending = FALSE
  /\ expiredShown = 0
  /\ ticks = 0
  /\ menu = {}
  /\ balanceText = <<>>
  /\ sent = <<>>
  /\ awaiting = 0
  /\ left = "none"

\* ------------------------------------------------------------- countdown
\* tick() run with timeLeft = tl: write #countdown, then expire, or decrement
\* and re-arm the timer
TickBody(tl) ==
  /\ countdown' = <<tl>>
  /\ IF tl <= 0
       THEN /\ statusText' = MsgExpired
            /\ expiredShown' = expiredShown + 1
            /\ timeLeft' = tl
            /\ timerPending' = FALSE
       ELSE /\ timeLeft' = tl - 1
            /\ timerPending' = TRUE
            /\ UNCHANGED <<statusText, expiredShown>>

\* ------------------------------------------------------------- page load
\* index.html: the login script only defines and exposes its functions
LoadIndex ==
  /\ page = "index" /\ ~scriptsRun
  /\ scriptsRun' = TRUE
  /\ doc' \in DocKinds
  /\ UNCHANGED <<page, left, url, domReady, store, alarm, overlay, statusText,
                 countdown, timeLeft, timerPending, expiredShown, ticks, menu,
                 balanceText, sent, awaiting>>

\* otp.html: let timeLeft = parseInt(t) || 60; ... tick();
LoadOtp ==
  /\ page = "otp" /\ ~scriptsRun
  /\ scriptsRun' = TRUE
  /\ doc' \in DocKinds
  /\ TickBody(InitialTimeLeft(url.t))
  /\ UNCHANGED <<page, left, url, domReady, store, alarm, overlay, ticks, menu,
                 balanceText, sent, awaiting>>

\* mainmenu.html: the role menu is written into #menu
LoadMainMenu ==
  /\ page = "mainmenu" /\ ~scriptsRun
  /\ scriptsRun' = TRUE
  /\ doc' \in DocKinds
  /\ menu' = MenuFor(MenuStatus(url.status))
  /\ UNCHANGED <<page, left, url, domReady, store, alarm, overlay, statusText,
                 countdown, timeLeft, timerPending, expiredShown, ticks,
                 balanceText, sent, awaiting>>

\* balance.html: the balance text is written into #balance-amount
LoadBalance ==
  /\ page = "balance" /\ ~scriptsRun
  /\ scriptsRun' = TRUE
  /\ doc' \in DocKinds
  /\ balanceText' = BalanceDisplay(url.bal)
  /\ UNCHANGED <<page, left, url, domReady, store, alarm, overlay, statusText,
                 countdown, timeLeft, timerPending, expiredShown, ticks, menu,
                 sent, awaiting>>

\* variant: the flag is checked as soon as global.js is parsed, not on the event
DOMContentLoadedAtParse ==
  /\ page \in AppPages
  /\ ~domReady
  /\ domReady' = TRUE
  /\ overlay' = IF store = "true" /\ doc.lock THEN "flex" ELSE overlay
  /\ UNCHANGED <<page, left, url, doc, scriptsRun, store, alarm, statusText, countdown,
                 timeLeft, timerPending, expiredShown, ticks, menu,
                 balanceText, sent, awaiting>>

\* window.addEventListener("DOMContentLoaded", ...) of global.js; the browser
\* fires the event once the document's scripts have run
DOMContentLoaded ==
  /\ page \in AppPages
  /\ scriptsRun
  /\ ~domReady
  /\ domReady' = TRUE
  /\ overlay' = IF store = "true" /\ doc.lock THEN "flex" ELSE overlay
  /\ UNCHANGED <<page, left, url, doc, scriptsRun, store, alarm, statusText, countdown,
                 timeLeft, timerPending, expiredShown, ticks, menu,
                 balanceText, sent, awaiting>>

\* setTimeout(tick, 1000) callback
tick ==
  /\ Live("otp")
  /\ timerPending
  /\ TickBody(timeLeft)
  /\ ticks' = ticks + 1
  /\ UNCHANGED <<page, left, url, doc, scriptsRun, domReady, store, alarm, overlay, menu,
                 balanceText, sent, awaiting>>

\* ------------------------------------------------------------ login page
Request(fn, a, b) == [fn |-> fn, args |-> <<a, b>>]

\* variant: only the user name is looked at
LoginValidUserOnly(user, pass) == user # <<>>

\* login(): the two fields are trimmed; an empty one stops it
LoginValid(user, pass) == user # <<>> /\ pass # <<>>

\* variant: login() opens the OTP page itself once the request is out
loginAndRedirect(u, p) ==
  /\ Live("index")
  /\ LET user == trim(u)
         pass == trim(p)
     IN IF ~(user # <<>> /\ pass # <<>>)
          THEN /\ statusText' = MsgValidateLogin
               /\ UNCHANGED <<page, left, url, doc, scriptsRun, domReady, alarm,
                              overlay, countdown, timeLeft, timerPending,
                              expiredShown, ticks, menu, balanceText, sent,
                              awaiting>>
          ELSE Navigate("otp", [user |-> "alice", status |-> "customer",
                                t |-> "3", bal |-> ABSENT])
  /\ UNCHANGED store

login(u, p) ==
  /\ Live("index")
  /\ UNCHANGED <<page, left, url, doc, scriptsRun, domReady, store, alarm, overlay,
                 countdown, timeLeft, timerPending, expiredShown, ticks, menu,
                 balanceText, awaiting>>
  /\ LET user == trim(u)
         pass == trim(p)
     IN IF ~LoginValid(user, pass)
          THEN /\ statusText' = MsgValidateLogin
               /\ UNCHANGED sent
          ELSE /\ Len(sent) < MaxReq
               /\ statusText' = MsgAuthenticating
               /\ sent' = Append(sent, Request("login", user, pass))

show_status(msg) ==
  /\ Live("index")
  /\ statusText' = msg
  /\ UNCHANGED <<page, left, url, doc, scriptsRun, domReady, store, alarm, overlay,
                 countdown, timeLeft, timerPending, expiredShown, ticks, menu,
                 balanceText, sent, awaiting>>

redirect_otp(username, status, timer) ==
  /\ Live("index")
  /\ Navigate("otp", [user |-> username, status |-> status, t |-> timer,
                      bal |-> ABSENT])
  /\ UNCHANGED store

\* -------------------------------------------------------------- OTP page
\* variant: any non-empty code is sent
OtpValidNonEmpty(val) == val # <<>>

\* submitOtp(): if (!val || val.length !== 6)
OtpValid(val) == val # <<>> /\ Len(val) = OtpLen

\* variant: a well-formed code opens the main menu without the backend
submitOtpLocalCheck(input) ==
  /\ Live("otp")
  /\ LET val == trim(input)
     IN IF ~(val # <<>> /\ Len(val) = OtpLen)
          THEN /\ statusText' = MsgValidateOtp
               /\ UNCHANGED <<page, left, url, doc, scriptsRun, domReady, alarm,
                              overlay, countdown, timeLeft, timerPending,
                              expiredShown, ticks, menu, balanceText, sent,
                              awaiting>>
          ELSE Navigate("mainmenu", [user |-> url.user, status |-> ABSENT,
                                     t |-> ABSENT, bal |-> ABSENT])
  /\ UNCHANGED store

\* variant: once the countdown has expired a code is no longer sent
submitOtpUntilExpiry(input) ==
  /\ Live("otp")
  /\ UNCHANGED <<page, left, url, doc, scriptsRun, domReady, store, alarm, overlay,
                 countdown, timeLeft, timerPending, expiredShown, ticks, menu,
                 balanceText, awaiting>>
  /\ LET val == trim(input)
     IN IF ~(val # <<>> /\ Len(val) = OtpLen)
          THEN /\ statusText' = MsgValidateOtp
               /\ UNCHANGED sent
          ELSE IF expiredShown > 0
                 THEN /\ statusText' = MsgExpired
                      /\ UNCHANGED sent
                 ELSE /\ Len(sent) < MaxReq
                      /\ statusText' = MsgVerifying
                      /\ sent' = Append(sent, Request("verify_otp", <<url.user>>, val))

\* variant: sending a code cancels the pending countdown timer
submitOtpStopsTimer(input) ==
  /\ Live("otp")
  /\ UNCHANGED <<timeLeft, page, left, scriptsRun, domReady, store,
                 alarm, overlay, url, doc, countdown, expiredShown, ticks, menu,
                 balanceText, awaiting>>
  /\ LET val == trim(input)
     IN IF ~(val # <<>> /\ Len(val) = OtpLen)
          THEN /\ statusText' = MsgValidateOtp
               /\ UNCHANGED <<sent, timerPending>>
          ELSE /\ Len(sent) < MaxReq
               /\ statusText' = MsgVerifying
               /\ timerPending' = FALSE
               /\ sent' = Append(sent, Request("verify_otp", <<url.user>>, val))

submitOtp(input) ==
  /\ Live("otp")
  /\ UNCHANGED <<timeLeft, timerPending, page, left, scriptsRun, domReady, store,
                 alarm, overlay, url, doc, countdown, expiredShown, ticks, menu,
                 balanceText, awaiting>>
  /\ LET val == trim(input)
     IN IF ~OtpValid(val)
          THEN /\ statusText' = MsgValidateOtp
               /\ UNCHANGED sent
          ELSE /\ Len(sent) < MaxReq
               /\ statusText' = MsgVerifying
               /\ sent' = Append(sent, Request("verify_otp", <<url.user>>, val))

\* variant: a failure push also cancels the pending countdown timer
otp_failedStopsTimer(msg) ==
  /\ Live("otp")
  /\ statusText' = msg
  /\ timerPending' = FALSE
  /\ UNCHANGED <<page, left, url, doc, scriptsRun, domReady, store, alarm, overlay,
                 countdown, timeLeft, expiredShown, ticks, menu,
                 balanceText, sent, awaiting>>

otp_failed(msg) ==
  /\ Live("otp")
  /\ statusText' = msg
  /\ UNCHANGED <<page, left, url, doc, scriptsRun, domReady, store, alarm, overlay,
                 countdown, timeLeft, timerPending, expiredShown, ticks, menu,
                 balanceText, sent, awaiting>>

\* variant: the success push is dropped once the countdown has expired
redirect_mainBeforeExpiry(username, status) ==
  /\ Live("otp")
  /\ expiredShown = 0
  /\ Navigate("mainmenu", [user |-> username, status |-> status, t |-> ABSENT,
                           bal |-> ABSENT])
  /\ UNCHANGED store

redirect_main(username, status) ==
  /\ Live("otp")
  /\ Navigate("mainmenu", [user |-> username, status |-> status, t |-> ABSENT,
                           bal |-> ABSENT])
  /\ UNCHANGED store

\* ------------------------------------------------------------- main menu
\* variant: logout also empties sessionStorage
logoutClearsSession ==
  /\ Live("mainmenu")
  /\ "Logout" \in menu
  /\ Navigate("index", NoUrl)
  /\ store' = ABSENT

logout ==
  /\ Live("mainmenu")
  /\ "Logout" \in menu
  /\ Navigate("index", NoUrl)
  /\ UNCHANGED store

\* checkBalance() up to its await
checkBalance ==
  /\ Live("mainmenu")
  /\ "Check Balance" \in menu
  /\ Len(sent) < MaxReq
  /\ sent' = Append(sent, Request("get_balance", <<url.user>>, <<>>))
  /\ awaiting' = awaiting + 1
  /\ UNCHANGED <<page, left, url, doc, scriptsRun, domReady, store, alarm, overlay,
                 statusText, countdown, timeLeft, timerPending, expiredShown,
                 ticks, menu, balanceText>>

\* checkBalance() from its await on: eel.get_balance resolved with bal
BalanceResolved(bal) ==
  /\ Live("mainmenu")
  /\ awaiting > 0
  /\ Navigate("balance", [user |-> Str(url.user),
                          status |-> MenuStatus(url.status),
                          t |-> ABSENT, bal |-> bal])
  /\ UNCHANGED store

\* eel.get_balance rejected: the await throws, nothing catches it
BalanceRejected ==
  /\ Live("mainmenu")
  /\ awaiting > 0
  /\ awaiting' = awaiting - 1
  /\ UNCHANGED <<page, left, url, doc, scriptsRun, domReady, store, alarm, overlay,
                 statusText, countdown, timeLeft, timerPending, expiredShown,
                 ticks, menu, balanceText, sent>>

\* onclick="eel.toggle_maintenance(b)()"
toggle_maintenance(b) ==
  /\ Live("mainmenu")
  /\ (IF b = "true" THEN "Enable Maintenance" ELSE "Disable Maintenance") \in menu
  /\ Len(sent) < MaxReq
  /\ sent' = Append(sent, Request("toggle_maintenance", <<b>>, <<>>))
  /\ UNCHANGED <<page, left, url, doc, scriptsRun, domReady, store, alarm, overlay,
                 statusText, countdown, timeLeft, timerPending, expiredShown,
                 ticks, menu, balanceText, awaiting>>

\* show_balance(user, amount): the navigation; the 300 ms timer it arms dies
\* with the page or finds no #balance-amount on the menu page
show_balance(user, amount) ==
  /\ Live("mainmenu")
  /\ Navigate("balance", [user |-> user, status |-> "customer", t |-> ABSENT,
                          bal |-> ABSENT])
  /\ UNCHANGED store

\* ---------------------------------------------------------- balance page
goBack ==
  /\ Live("balance")
  /\ Navigate("mainmenu", [user |-> Str(url.user), status |-> Str(url.status),
                           t |-> ABSENT, bal |-> ABSENT])
  /\ UNCHANGED store

\* ------------------------------------------------------------- lockdown
\* variant: the lockdown also drops the calls suspended on the backend
GlobalTriggerCancels ==
  /\ store' = "true"
  /\ alarm' = IF doc.lock THEN "here" ELSE "earlier"
  /\ IF doc.lock
       THEN /\ overlay' = "flex"
            /\ awaiting' = 0
            /\ UNCHANGED <<page, left, url, doc, scriptsRun, domReady, statusText,
                           countdown, timeLeft, timerPending, expiredShown,
                           ticks, menu, balanceText, sent>>
       ELSE Document("lock", NoUrl)

\* trigger_emergency_mode of global.js
GlobalTrigger ==
  /\ store' = "true"
  /\ alarm' = IF doc.lock THEN "here" ELSE "earlier"
  /\ IF doc.lock
       THEN /\ overlay' = "flex"
            /\ UNCHANGED <<page, left, url, doc, scriptsRun, domReady, statusText,
                           countdown, timeLeft, timerPending, expiredShown,
                           ticks, menu, balanceText, sent, awaiting>>
       ELSE Document("lock", NoUrl)

\* trigger_emergency_mode of the page scripts
LocalTrigger ==
  /\ overlay' = IF doc.lock THEN "flex" ELSE overlay
  /\ alarm' = "here"
  /\ UNCHANGED <<page, left, url, doc, scriptsRun, domReady, store, statusText,
                 countdown, timeLeft, timerPending, expiredShown, ticks, menu,
                 balanceText, sent, awaiting>>

\* the emergency push: eel calls the function exposed last under that name
trigger_emergency_mode ==
  /\ page \in AppPages /\ scriptsRun
  /\ IF doc.last = "global" THEN GlobalTrigger ELSE LocalTrigger

\* clearLock(), typed into the console
clearLock ==
  /\ page \in AppPages /\ scriptsRun
  /\ store' = ABSENT
  /\ alarm' = "none"
  /\ overlay' = IF doc.lock THEN "none" ELSE overlay
  /\ UNCHANGED <<page, left, url, doc, scriptsRun, domReady, statusText, countdown,
                 timeLeft, timerPending, expiredShown, ticks, menu,
                 balanceText, sent, awaiting>>

\* ------------------------------------------------------------------ Next
Login == \E u \in UserInputs, p \in PassInputs : login(u, p)
ShowStatus == \E msg \in Msgs : show_status(msg)
RedirectOtp ==
  \E username \in Users, status \in OtpStatuses,
     timer \in {NumStr(n) : n \in Seeds} :
    redirect_otp(username, status, timer)
SubmitOtp == \E input \in OtpInputs : submitOtp(input)
OtpFailed == \E msg \in Msgs : otp_failed(msg)
RedirectMain == \E username \in Users, status \in Statuses : redirect_main(username, status)
GetBalanceResolved == \E bal \in {NumStr(n) : n \in Amounts} \cup {"Error"} : BalanceResolved(bal)
ToggleMaintenance == \E b \in {"true", "false"} : toggle_maintenance(b)
ShowBalance == \E user \in Users, amount \in Amounts : show_balance(user, amount)

Next ==
  \/ LoadIndex
  \/ LoadOtp
  \/ LoadMainMenu
  \/ LoadBalance
  \/ DOMContentLoaded
  \/ tick
  \/ Login
  \/ ShowStatus
  \/ RedirectOtp
  \/ SubmitOtp
  \/ OtpFailed
  \/ RedirectMain
  \/ logout
  \/ checkBalance
  \/ GetBalanceResolved
  \/ BalanceRejected
  \/ ToggleMaintenance
  \/ ShowBalance
  \/ goBack
  \/ trigger_emergency_mode
  \/ clearLock

Spec == Init /\ [][Next]_vars

\* the timer callback armed by setTimeout is eventually run by the event loop
FairSpec == Spec /\ WF_vars(tick)

\* ================================================================ claims
\* words of the claims
Blank(s) == \A i \in 1..Len(s) : s[i] = " "

\* length of a text from its first to its last non-blank character
CoreLen(s) ==
  LET nb == {i \in 1..Len(s) : s[i] # " "}
  IN IF nb = {} THEN 0
     ELSE (CHOOSE i \in nb : \A j \in nb : j <= i)
          - (CHOOSE i \in nb : \A j \in nb : i <= j) + 1

\* typed texts by the cases the claims tell apart
BlankLogins == {x \in UserInputs \X PassInputs : Blank(x[1]) \/ Blank(x[2])}
FilledLogins == (UserInputs \X PassInputs) \ BlankLogins
OtpNot6Typed == {x \in OtpInputs : Len(x) # OtpLen}
OtpNot6 == {x \in OtpInputs : CoreLen(x) # OtpLen}
Otp6 == {x \in OtpInputs : CoreLen(x) = OtpLen}

\* the page's own initialization has been done
PageInitialised ==
  /\ scriptsRun
  /\ page = "otp" => countdown # <<>>
  /\ page = "mainmenu" => menu # {}
  /\ page = "balance" => balanceText # <<>>

\* the countdown of the OTP page shown has expired
Expired == page = "otp" /\ expiredShown >= 1

Grows(q, r) == Len(r) = Len(q) + 1 /\ SubSeq(r, 1, Len(q)) = q

\* C1 (as stated): once the emergency push has been delivered to an earlier
\* document of the session, every page loaded afterwards shows the lockdown
\* overlay when its load is complete, without any further push.
C1_LockdownSurvivesNavigation ==
  (alarm = "earlier" /\ page \in AppPages /\ domReady) => overlay = "flex"

\* C2 (as stated): after the emergency push has been delivered to the document
\* shown, whatever the page, sessionStorage holds lockdown = "true".
C2_PushWritesFlag == alarm = "here" => store = "true"

C4_FlagWrittenOnlyByPushAndReset ==
  [][store' # store =>
       \/ store' = "true" /\ trigger_emergency_mode
       \/ store' = ABSENT /\ clearLock]_vars

C4_Witness ==
  /\ store = "true" /\ alarm = "earlier"
  /\ page = "index" /\ scriptsRun /\ statusText = MsgValidateLogin

\* C5: a login with a blank (empty or whitespace-only) user name or password
\* issues no backend request, shows the validation message and stays on the
\* login page.
C5_BlankLoginRejected ==
  [][page = "index" =>
       \A x \in BlankLogins :
         login(x[1], x[2]) =>
         /\ sent' = sent
         /\ statusText' = MsgValidateLogin
         /\ page' = "index" /\ url' = url]_vars

C5_Witness ==
  page = "index" /\ statusText = MsgValidateLogin /\ sent = <<>>

\* C6: a login with non-blank user name and password issues exactly one
\* backend login request, shows the authenticating message and stays on the
\* login page; status pushes leave page and requests alone; the login page is
\* left for another session page only by the redirect_otp push.
C6_LoginSendsOneRequest ==
  [][/\ page = "index" =>
          \A x \in FilledLogins :
            login(x[1], x[2]) =>
            /\ Grows(sent, sent')
            /\ sent'[Len(sent')].fn = "login"
            /\ statusText' = MsgAuthenticating
            /\ page' = "index" /\ url' = url
     /\ ShowStatus => (page' = page /\ url' = url /\ sent' = sent)
     /\ (page = "index" /\ page' \in AppPages \ {"index"}) => RedirectOtp]_vars

C6_Witness ==
  /\ page = "index" /\ Len(sent) = 1 /\ sent[1].fn = "login"
  /\ statusText \in Msgs

\* C7 (as stated): submitOtp with a typed text whose length is not 6 issues no
\* verification request: a step of the OTP page that issues one is no such
\* submitOtp.
C7_LengthNot6NoRequest ==
  [][(page = "otp" /\ page' = "otp" /\ sent' # sent) =>
       \A input \in OtpNot6Typed : ~submitOtp(input)]_vars

\* C7 (amended): submitOtp with a typed text whose length without the blanks
\* around it is not 6 issues no verification request and shows the validation
\* message: a step of the OTP page that issues a request, or that leaves
\* another status text, is no such submitOtp.
C7_TrimmedLengthNot6NoRequest ==
  [][(page = "otp" /\ page' = "otp"
        /\ (sent' # sent \/ statusText' # MsgValidateOtp)) =>
       \A input \in OtpNot6 : ~submitOtp(input)]_vars

C7_Witness ==
  page = "otp" /\ statusText = MsgValidateOtp /\ sent = <<>>

\* C8 (as stated): on the OTP page opened with seed N, once N timer ticks have
\* run the expired message has been set exactly once, it is never set more
\* than once, and the remaining time shown is never negative.
C8_CountdownExpiresAfterSeedTicks ==
  (page = "otp" /\ scriptsRun) =>
    /\ ticks >= parseInt(url.t) => expiredShown = 1
    /\ expiredShown <= 1
    /\ countdown # <<>> => countdown[1] >= 0

\* C9: the OTP page is left for the main menu (or the balance page) only by
\* the redirect_main push: no submission, tick, failure or lockdown push does.
C9_OnlyRedirectMainAuthenticates ==
  [][(page = "otp" /\ page' \in {"mainmenu", "balance"}) => RedirectMain]_vars

C9_Witness ==
  page = "mainmenu" /\ url.status = "Staff" /\ menu = MenuFor("staff")

\* C10 (as stated): once the countdown has expired, no further verification
\* request is issued from the OTP page.
C10_NoRequestAfterExpiry ==
  [][Expired => ~(Len(sent') > Len(sent))]_vars

\* C10 (amended): once the countdown has expired, a verification request is
\* issued only by a submitOtp whose code has 6 characters, and each such
\* submitOtp still issues exactly one.
C10_OnlySubmitRequestsAfterExpiry ==
  [][Expired =>
       /\ Len(sent') > Len(sent) =>
            \E input \in Otp6 : submitOtp(input)
       /\ \A input \in Otp6 :
            submitOtp(input) =>
              (Grows(sent, sent') /\ sent'[Len(sent')].fn = "verify_otp")]_vars

C10_Witness ==
  /\ page = "otp" /\ expiredShown = 1 /\ statusText = MsgVerifying
  /\ Len(sent) = 1

\* C11: a status push (show_status) or an OTP-failure push (otp_failed) changes
\* the status text only, to the message pushed (so the last push is the one
\* shown): page and parameters, the countdown (remaining seconds, text shown,
\* pending timer), the lockdown flag and overlay, and the requests issued and
\* awaited all stay as they are, whenever and however often it is delivered.
C11_StatusPushOnlyText ==
  [][\A msg \in Msgs :
       (show_status(msg) \/ otp_failed(msg)) =>
         /\ statusText' = msg
         /\ UNCHANGED <<page, url, timeLeft, timerPending, countdown,
                        expiredShown, store, overlay, sent, awaiting, menu,
                        balanceText>>]_vars

C11_Witness ==
  /\ page = "otp" /\ statusText = "Wrong OTP"
  /\ timerPending /\ ticks = 1 /\ timeLeft = 1
  /\ Len(sent) = 1 /\ store = "true"

\* C12 (as stated): the balance page, however it was entered (checkBalance
\* resolved, or the show_balance push), shows either "RM " and the amount or
\* the error-retrieving-balance message.
C12_DetailDisplayHandled ==
  (page = "balance" /\ scriptsRun) =>
    balanceText \in {<<"Error retrieving balance">>}
                      \cup {<<"RM", NumStr(n), ".00">> : n \in Amounts}

\* C13 (as stated): when the awaited eel.get_balance rejects, checkBalance
\* still opens the balance page, carrying the sentinel "Error".
C13_RejectedFetchReachesDetail ==
  [][BalanceRejected => (page' = "balance" /\ url'.bal = "Error")]_vars

\* C14: on the main menu the buttons depend on the role alone: role staff
\* (however spelled) gets exactly Enable Maintenance, Disable Maintenance and
\* Logout; role customer, or no role given, gets exactly Check Balance,
\* Withdraw, Deposit and Logout.
C14_MenuByRole ==
  (page = "mainmenu" /\ scriptsRun) =>
    /\ url.status \in {"staff", "Staff"} =>
         menu = {"Enable Maintenance", "Disable Maintenance", "Logout"}
    /\ url.status \in {"customer", "", ABSENT} =>
         menu = {"Check Balance", "Withdraw", "Deposit", "Logout"}

C14_Witness ==
  /\ page = "mainmenu" /\ scriptsRun /\ url.status = ""
  /\ "Check Balance" \in menu /\ "Enable Maintenance" \notin menu

\* C15: on the OTP page the success push redirect_main is accepted in every
\* state of the countdown (timer pending, or expired), whatever was submitted
\* or pushed before: it can always be delivered, and it opens the main menu
\* with the user and role pushed.
C15_SuccessPushAlwaysAccepted ==
  [][page = "otp" =>
       /\ scriptsRun => ENABLED RedirectMain
       /\ \A username \in Users, status \in Statuses :
            redirect_main(username, status) =>
              /\ page' = "mainmenu"
              /\ url'.user = username /\ url'.status = status]_vars

C15_Witness ==
  /\ page = "mainmenu" /\ left = "expired"
  /\ url.user = "bob" /\ url.status = "Staff"

\* C16: under fair scheduling of the timer callback, an OTP page that has
\* been loaded eventually shows the countdown expired, unless it is left
\* first; no submission and no status, failure or lockdown push stops that.
\* Once expired the countdown is terminal: as long as the page is shown no
\* timer is pending and the remaining time and its display do not change.
C16_CountdownExpiresAndStays ==
  /\ (page = "otp" /\ scriptsRun) ~> (Expired \/ page # "otp")
  /\ [][(Expired /\ page' = "otp") =>
          /\ ~timerPending /\ ~timerPending'
          /\ timeLeft' = timeLeft /\ countdown' = countdown
          /\ expiredShown' = expiredShown]_vars

C16_Witness ==
  /\ page = "otp" /\ expiredShown = 1 /\ ~timerPending /\ timeLeft = 0
  /\ ticks = 3 /\ Len(sent) = 2 /\ overlay = "flex"

\* C17 (as stated): the emergency push on a page without the overlay element
\* opens lock.html; on a page with the element it shows the overlay and does
\* not navigate.
C17_FallbackToLockPage ==
  [][trigger_emergency_mode =>
       IF doc.lock THEN overlay' = "flex" /\ page' = page /\ url' = url
                   ELSE page' = "lock"]_vars

\* C18: on a page that has the overlay element the emergency push shows the
\* overlay and at most sets the lockdown flag; page and parameters, status
\* text, countdown (remaining seconds, pending timer), menu, and the requests
\* issued and awaited stay as they are, and a balance fetch still awaited
\* under the overlay can still resolve and be processed.
C18_PushOnlyOverlayAndFlag ==
  [][/\ (page \in AppPages /\ doc.lock /\ trigger_emergency_mode) =>
          /\ overlay' = "flex"
          /\ store' \in {store, "true"}
          /\ UNCHANGED <<page, url, statusText, timeLeft, timerPending,
                         countdown, expiredShown, menu, balanceText, sent,
                         awaiting>>
     /\ (page = "mainmenu" /\ awaiting > 0 /\ overlay = "flex") =>
          ENABLED GetBalanceResolved]_vars

C18_Witness ==
  /\ page = "mainmenu" /\ overlay = "flex" /\ alarm = "here" /\ store = "true"
  /\ awaiting = 1 /\ Len(sent) = 1

\* C19 (as stated): while the lockdown flag is set no step takes the window
\* from one session page to another.
C19_NoNavigationUnderLockdown ==
  [][(store = "true" /\ page \in AppPages /\ page' \in AppPages) =>
       page' = page]_vars

\* C20 (as stated): the balance page is entered from the main menu with the
\* menu's user and a role that gives the menu shown, and goBack opens the main
\* menu with the user and role the balance page carries; so main menu ->
\* balance -> goBack ends with the user, role and menu it started from.
C20_RoundTripKeepsIdentityAndRole ==
  [][/\ (page = "mainmenu" /\ page' = "balance") =>
          /\ url'.user = url.user
          /\ MenuFor(MenuStatus(url'.status)) = menu
     /\ (page = "balance" /\ page' = "mainmenu") =>
          /\ url'.user = url.user
          /\ MenuStatus(url'.status) = MenuStatus(url.status)]_vars
====
